---- MODULE Spec2Model ----
(***************************************************************************)
(* SQLiteTraceRecorder (examples/sqlite_trace.py): a TraceConfig whose     *)
(* five handlers write one row into `events` and one row into a detail     *)
(* table on a shared sqlite3 connection, then commit.                      *)
(*                                                                         *)
(* The connection is modelled as two databases: `committed` (durable) and  *)
(* `pending` (the rows of the open transaction; sqlite3 opens one          *)
(* implicitly before the first INSERT and keeps it open until commit or    *)
(* rollback).  The handlers are `async def` without any await, so a        *)
(* handler invocation runs from its first statement to its return or       *)
(* raise with no other handler in between: `frame` is the one invocation   *)
(* in progress.  Each statement of a handler is one action.                *)
(***************************************************************************)
EXTENDS Integers, Sequences, FiniteSets, TLC

VARIABLES
    committed,  \* the durable rows of the six tables
    pending,    \* the rows of the open transaction on self._conn
    tables,     \* the tables that exist in the database
    ctx,        \* ctx[r]: the trace context of request r (SimpleNamespace)
    phase,      \* phase[r]: where the host client is in the life of request r
    frame,      \* the handler invocation in progress (pc = 0: none)
    suspended,  \* the handler invocations parked at an await
    last,       \* how the last finished handler invocation ended: returned or raised
    clock,      \* what time.time() returns now
    clockBack,  \* the wall clock has been set back at least once
    fails,      \* number of storage errors raised so far
    endRead,    \* endRead[r]: the reading the end handler of request r took
    hooks,      \* hooks[r]: history of the hook invocations of an observed request r
    hdr         \* a header list on its way through _serialize_headers and back

vars ==
    <<committed, pending, tables, ctx, phase, frame, suspended, last, clock,
      clockBack, fails, endRead, hooks, hdr>>

(***************************************************************************)
(* Bounds                                                                  *)
(***************************************************************************)
MaxReq == 2        \* requests the host client issues
MaxEvents == 3     \* rows of the events table
MaxFail == 1       \* storage errors
MaxClock == 1      \* wall clock readings are 0..MaxClock
MaxTraceEvents == 4 \* rows of the events table, when one request is observed
MaxPairs == 2      \* (name, value) pairs of a header list
MaxChars == 3      \* characters of a header list, all names and values together

Requests == 1..MaxReq
UuidSpace == 11..(10 + MaxReq)
Methods == {"GET"}
Urls == {"https://example.com"}
Statuses == {200}
Exceptions == {"ClientConnectionError()"}
Chunks == {<<7, 7>>}

\* Wider input sets, for the observation of one request.
StatusesWide == {200, 404}
ChunksWide == {<<7>>, <<7, 7>>}

SchemaTables ==
    {"events", "request_start", "request_end", "request_exception",
     "request_chunk", "response_chunk"}

EmptyDb ==
    [events |-> {}, request_start |-> {}, request_end |-> {},
     request_exception |-> {}, request_chunk |-> {}, response_chunk |-> {}]

Max(S) == CHOOSE x \in S : \A y \in S : y <= x

(***************************************************************************)
(* The storage handle                                                      *)
(***************************************************************************)
\* What a reader of the connection sees: durable rows and the rows of the
\* open transaction.
Visible(c, p) == [t \in DOMAIN c |-> c[t] \cup p[t]]

\* A rowid allocation that looks at the open transaction only.
NextRowId_PendingOnly(c, p) ==
    1 + Max({0} \cup {e.id : e \in p.events})

\* INTEGER PRIMARY KEY AUTOINCREMENT: one more than the largest id the table
\* has held.  Rows are never deleted, and a rollback also rolls back
\* sqlite_sequence, so that is the largest id among the visible rows.
NextRowId(c, p) ==
    1 + Max({0} \cup {e.id : e \in c.events \cup p.events})

\* A commit that replaces the durable rows by those of the transaction.
CommitTx_Overwrite(c, p) == p

\* conn.commit(): the open transaction becomes durable.
CommitTx(c, p) == Visible(c, p)

\* An _insert_event that returns the rowid before the one it inserted.
insert_event_stale(c, p, ts, request_id, event_type) ==
    LET id == NextRowId(c, p) IN
    [pending |-> [p EXCEPT !.events = @ \cup
                    {[id |-> id, ts |-> ts, request_id |-> request_id,
                      event_type |-> event_type]}],
     lastrowid |-> id - 1]

\* _insert_event: INSERT INTO events(ts, request_id, event_type) VALUES
\* (time.time(), request_id, event_type); return cur.lastrowid.
insert_event(c, p, ts, request_id, event_type) ==
    LET id == NextRowId(c, p) IN
    [pending |-> [p EXCEPT !.events = @ \cup
                    {[id |-> id, ts |-> ts, request_id |-> request_id,
                      event_type |-> event_type]}],
     lastrowid |-> id]


(***************************************************************************)
(* init_sqlite                                                             *)
(***************************************************************************)
\* The CREATE TABLE statements of the script, in source order.
SchemaOrder ==
    <<"events", "request_start", "request_end", "request_exception",
      "request_chunk", "response_chunk">>

\* CREATE TABLE t without IF NOT EXISTS: an error if t exists.
CreateTable_Strict(db, t) ==
    IF db.error THEN db
    ELSE IF t \in db.tables THEN [db EXCEPT !.error = TRUE]
    ELSE [db EXCEPT !.tables = @ \cup {t}]

\* CREATE TABLE IF NOT EXISTS t: creates t if it is missing, does nothing if
\* it exists.  A script stops at the first statement that raises.
CreateTable(db, t) ==
    IF db.error THEN db
    ELSE [db EXCEPT !.tables = @ \cup {t}]

RECURSIVE ExecuteScript(_, _)
ExecuteScript(db, i) ==
    IF i > Len(SchemaOrder) THEN db
    ELSE ExecuteScript(CreateTable(db, SchemaOrder[i]), i + 1)

\* init_sqlite(conn): conn.executescript issues a COMMIT of the open
\* transaction, then runs the six statements; conn.commit() follows and finds
\* nothing to commit.
init_sqlite(db) ==
    ExecuteScript([tables |-> db.tables,
                   committed |-> CommitTx(db.committed, db.pending),
                   pending |-> EmptyDb,
                   error |-> FALSE], 1)

(***************************************************************************)
(* _serialize_headers                                                      *)
(***************************************************************************)
\* The characters (code points) header names and values are made of:
\* a plain ASCII letter, the quotation mark, the backslash, a high and a low
\* surrogate code point (a Python str can hold them unpaired), and a
\* character beyond the Basic Multilingual Plane.
Characters == {"a", "\"", "\\", "U+D83D", "U+DE00", "U+1F600"}

RECURSIVE Flatten(_)
Flatten(ss) == IF ss = <<>> THEN <<>> ELSE Head(ss) \o Flatten(Tail(ss))

\* json.dumps with its default ensure_ascii=True, one character: the quotation
\* mark and the backslash are escaped with a backslash, every non-ASCII code
\* point below U+10000 becomes \uXXXX, a code point from U+10000 becomes the
\* \uXXXX\uXXXX of its surrogate pair.  A text is a sequence of ASCII
\* characters; the four hex digits of an escape are kept as one element.
EncodeChar(c) ==
    CASE c = "a" -> <<"a">>
      [] c = "\"" -> <<"\\", "\"">>
      [] c = "\\" -> <<"\\", "\\">>
      [] c = "U+D83D" -> <<"\\", "u", "d83d">>
      [] c = "U+DE00" -> <<"\\", "u", "de00">>
      [] c = "U+1F600" -> <<"\\", "u", "d83d", "\\", "u", "de00">>

EncodeString(str) ==
    <<"\"">> \o Flatten([i \in 1..Len(str) |-> EncodeChar(str[i])]) \o <<"\"">>

\* A (name, value) tuple becomes a JSON array of two strings.
EncodePair(pair) ==
    <<"[">> \o EncodeString(pair[1]) \o <<",", " ">> \o EncodeString(pair[2]) \o <<"]">>

\* json.dumps(list(headers)): the arrays, separated by ", ", in brackets.
serialize_headers(headers) ==
    <<"[">> \o
    Flatten([i \in 1..Len(headers) |->
                (IF i = 1 THEN <<>> ELSE <<",", " ">>) \o EncodePair(headers[i])]) \o
    <<"]">>

\* json.loads, a string: t[j] is the first element after the opening
\* quotation mark.  A \uXXXX of a high surrogate followed by a \uXXXX of a
\* low surrogate is read as the one character they encode.
RECURSIVE ScanString(_, _, _)
ScanString(t, j, acc) ==
    IF t[j] = "\"" THEN [value |-> acc, next |-> j + 1]
    ELSE IF t[j] # "\\" THEN ScanString(t, j + 1, Append(acc, t[j]))
    ELSE IF t[j + 1] # "u" THEN ScanString(t, j + 2, Append(acc, t[j + 1]))
    ELSE IF /\ t[j + 2] = "d83d"
            /\ j + 5 <= Len(t)
            /\ t[j + 3] = "\\" /\ t[j + 4] = "u" /\ t[j + 5] = "de00"
         THEN ScanString(t, j + 6, Append(acc, "U+1F600"))
    ELSE ScanString(t, j + 3,
                    Append(acc, IF t[j + 2] = "d83d" THEN "U+D83D" ELSE "U+DE00"))

\* json.loads, the arrays of two strings: t[j] is the "[" of an array.
RECURSIVE ScanPairs(_, _, _)
ScanPairs(t, j, acc) ==
    LET name == ScanString(t, j + 2, <<>>)
        val == ScanString(t, name.next + 3, <<>>)
        pairs == Append(acc, <<name.value, val.value>>)
    IN  IF t[val.next + 1] = "]" THEN pairs
        ELSE ScanPairs(t, val.next + 3, pairs)

\* json.loads of a text serialize_headers has written.
json_loads(t) == IF t = <<"[", "]">> THEN <<>> ELSE ScanPairs(t, 2, <<>>)

(***************************************************************************)
(* The handlers                                                            *)
(***************************************************************************)
Handlers ==
    {"_on_request_start", "_on_request_end", "_on_request_exception",
     "_on_request_chunk_sent", "_on_response_chunk_received"}

\* The event_type literal each handler passes to _insert_event.
EventType(h) ==
    CASE h = "_on_request_start" -> "request_start"
      [] h = "_on_request_end" -> "request_end"
      [] h = "_on_request_exception" -> "request_exception"
      [] h = "_on_request_chunk_sent" -> "request_chunk"
      [] h = "_on_response_chunk_received" -> "response_chunk"

\* An exception handler that writes its detail row to request_end.
DetailTable_ExceptionAsEnd(h) ==
    CASE h = "_on_request_start" -> "request_start"
      [] h = "_on_request_end" -> "request_end"
      [] h = "_on_request_exception" -> "request_end"
      [] h = "_on_request_chunk_sent" -> "request_chunk"
      [] h = "_on_response_chunk_received" -> "response_chunk"

\* The table each handler's second INSERT names.
DetailTable(h) ==
    CASE h = "_on_request_start" -> "request_start"
      [] h = "_on_request_end" -> "request_end"
      [] h = "_on_request_exception" -> "request_exception"
      [] h = "_on_request_chunk_sent" -> "request_chunk"
      [] h = "_on_response_chunk_received" -> "response_chunk"

\* Handlers of which the start handler returns without committing.
Plan_NoCommit(h) ==
    IF h = "_on_request_start" THEN <<"event", "detail">>
    ELSE IF h = "_on_request_end" THEN <<"elapsed", "event", "detail", "commit">>
    ELSE IF h = "_on_request_exception" THEN <<"event", "detail", "commit">>
    ELSE <<"event", "detail", "incr", "commit">>

\* The statements of each handler, in source order.
Plan(h) ==
    CASE h = "_on_request_start" -> <<"event", "detail", "commit">>
      [] h = "_on_request_end" -> <<"elapsed", "event", "detail", "commit">>
      [] h = "_on_request_exception" -> <<"event", "detail", "commit">>
      [] h = "_on_request_chunk_sent" -> <<"event", "detail", "incr", "commit">>
      [] h = "_on_response_chunk_received" -> <<"event", "detail", "incr", "commit">>

NoCtx ==
    [request_id |-> 0, started |-> 0, request_chunk_index |-> 0,
     response_chunk_index |-> 0]

NoParams == [method |-> "", url |-> "", status |-> 0, exception |-> "", chunk |-> <<>>]

\* The params objects the host client hands to each handler.
ParamsOf(h) ==
    CASE h = "_on_request_start" ->
            {[NoParams EXCEPT !.method = m, !.url = u] : m \in Methods, u \in Urls}
      [] h = "_on_request_end" ->
            {[NoParams EXCEPT !.status = s] : s \in Statuses}
      [] h = "_on_request_exception" ->
            {[NoParams EXCEPT !.exception = x] : x \in Exceptions}
      [] h \in {"_on_request_chunk_sent", "_on_response_chunk_received"} ->
            {[NoParams EXCEPT !.chunk = b] : b \in Chunks}

ParamsWide(h) ==
    CASE h = "_on_request_start" ->
            {[NoParams EXCEPT !.method = m, !.url = u] : m \in Methods, u \in Urls}
      [] h = "_on_request_end" ->
            {[NoParams EXCEPT !.status = s] : s \in StatusesWide}
      [] h = "_on_request_exception" ->
            {[NoParams EXCEPT !.exception = x] : x \in Exceptions}
      [] h \in {"_on_request_chunk_sent", "_on_response_chunk_received"} ->
            {[NoParams EXCEPT !.chunk = b] : b \in ChunksWide}

\* The subtraction the wrong way round.
Elapsed_Swapped(now, started) == started - now

\* elapsed = time.time() - ctx.started
Elapsed(now, started) == now - started

\* Chunk rows that all carry index 0.
DetailRow_IndexZero(h, event_id, c, params, elapsed) ==
    CASE h = "_on_request_start" ->
            [event_id |-> event_id, method |-> params.method, url |-> params.url]
      [] h = "_on_request_end" ->
            [event_id |-> event_id, status |-> params.status, elapsed |-> elapsed]
      [] h = "_on_request_exception" ->
            [event_id |-> event_id, exception |-> params.exception]
      [] h \in {"_on_request_chunk_sent", "_on_response_chunk_received"} ->
            [event_id |-> event_id, chunk_index |-> 0,
             size |-> Len(params.chunk), payload |-> params.chunk]

\* The tuple each handler binds to its detail INSERT.
DetailRow(h, event_id, c, params, elapsed) ==
    CASE h = "_on_request_start" ->
            [event_id |-> event_id, method |-> params.method, url |-> params.url]
      [] h = "_on_request_end" ->
            [event_id |-> event_id, status |-> params.status, elapsed |-> elapsed]
      [] h = "_on_request_exception" ->
            [event_id |-> event_id, exception |-> params.exception]
      [] h = "_on_request_chunk_sent" ->
            [event_id |-> event_id, chunk_index |-> c.request_chunk_index,
             size |-> Len(params.chunk), payload |-> params.chunk]
      [] h = "_on_response_chunk_received" ->
            [event_id |-> event_id, chunk_index |-> c.response_chunk_index,
             size |-> Len(params.chunk), payload |-> params.chunk]

InsertDetailRow(p, table, row) == [p EXCEPT ![table] = @ \cup {row}]

\* An increment that advances both counters.
Increment_Both(h, c) ==
    [c EXCEPT !.request_chunk_index = @ + 1, !.response_chunk_index = @ + 1]

\* ctx.request_chunk_index += 1 / ctx.response_chunk_index += 1
Increment(h, c) ==
    IF h = "_on_request_chunk_sent"
    THEN [c EXCEPT !.request_chunk_index = @ + 1]
    ELSE [c EXCEPT !.response_chunk_index = @ + 1]

\* A statement that raises sqlite3.Error has no effect of its own.  SQLite then
\* either leaves the open transaction as it was or rolls all of it back
\* (SQLITE_FULL, SQLITE_IOERR, SQLITE_NOMEM, ...); the handlers have no
\* except clause and no rollback() of their own.
ErrorOutcomes(p) == {p, EmptyDb}

IdleFrame ==
    [h |-> "none", req |-> 0, pc |-> 0, result |-> "none", event_id |-> 0,
     elapsed |-> 0, params |-> NoParams, steps |-> <<>>, entry |-> NoCtx]

\* A handler that awaits after its first statement.
AwaitPoints_AfterFirst(h) == {2}

\* The statements of handler h before which it awaits.  The handlers are
\* `async def` but contain no await, async for or async with: once called,
\* a handler runs to its return or raise without yielding to the event loop.
AwaitPoints(h) == {}

\* A handler that catches the storage error and goes on.
Propagate_Swallow(f, op, ok) ==
    LET g == [f EXCEPT !.steps = Append(@, [op |-> op, ok |-> ok])] IN
    IF f.pc = Len(Plan(f.h)) THEN [g EXCEPT !.pc = 0, !.result = "returned"]
    ELSE [g EXCEPT !.pc = f.pc + 1]

\* Control flow of a handler after one statement: the next statement, the
\* return after the last one, or the exception leaving the handler (no
\* try/except anywhere in the handlers).
Propagate(f, op, ok) ==
    LET g == [f EXCEPT !.steps = Append(@, [op |-> op, ok |-> ok])] IN
    IF ~ok THEN [g EXCEPT !.pc = 0, !.result = "raised"]
    ELSE IF f.pc = Len(Plan(f.h)) THEN [g EXCEPT !.pc = 0, !.result = "returned"]
    ELSE [g EXCEPT !.pc = f.pc + 1]

(***************************************************************************)
(* The host client (aiohttp's ClientSession and its Trace objects)         *)
(***************************************************************************)
\* When the host client fires each hook of a request.
CanInvoke(h, ph) ==
    CASE h = "_on_request_start" -> ph = "created"
      [] h = "_on_request_end" -> ph = "started"
      [] h = "_on_request_exception" -> ph \in {"started", "failing"}
      [] h = "_on_request_chunk_sent" -> ph = "started"
      [] h = "_on_response_chunk_received" -> ph = "started"

\* Where the request can be after a hook has returned or raised.  End and
\* Exception are terminal.  The start hook is awaited before the request is
\* attempted: an error it raises ends the request and no further hook fires.
\* An error raised by a later hook either fails the request (the exception
\* hook is due) or is logged and ignored by the host.
HostAfter(h, result) ==
    CASE h = "_on_request_start" ->
            IF result = "returned" THEN {"started"} ELSE {"aborted"}
      [] h = "_on_request_end" ->
            IF result = "returned" THEN {"done"} ELSE {"failing", "done"}
      [] h = "_on_request_exception" -> {"done"}
      [] h \in {"_on_request_chunk_sent", "_on_response_chunk_received"} ->
            IF result = "returned" THEN {"started"} ELSE {"failing", "started"}

\* No header list is being serialized.
NoHeaders == [pc |-> "idle", headers |-> <<>>, text |-> <<>>, decoded |-> <<>>]

Live == {r \in Requests : phase[r] \notin {"none", "unissued"}}

Issued == {ctx[r].request_id : r \in Live}

\* A factory that hands every context the same id.
Uuid4_Fixed(issued) == {11}

\* uuid.uuid4().hex: a value no earlier call has returned.  The ids are only
\* ever compared for equality, so which fresh value is drawn does not matter
\* and the least unused one stands for all of them.
Uuid4(issued) == {u \in UuidSpace \ issued : \A v \in UuidSpace \ issued : u <= v}

\* The database behind the connection, as init_sqlite finds it.
Db == [tables |-> tables, committed |-> committed, pending |-> pending,
       error |-> FALSE]

\* After init_sqlite(conn) and SQLiteTraceRecorder(conn): the schema exists,
\* nothing is recorded, no request has a context.  `issue` is the set of
\* requests the application is going to issue.
InitWith(issue) ==
    /\ committed = EmptyDb
    /\ pending = EmptyDb
    /\ tables = SchemaTables
    /\ ctx = [r \in Requests |-> NoCtx]
    /\ phase = [r \in Requests |-> IF r \in issue THEN "none" ELSE "unissued"]
    /\ frame = IdleFrame
    /\ suspended = {}
    /\ last = "none"
    /\ clock = 0
    /\ clockBack = FALSE
    /\ fails = 0
    /\ endRead = [r \in Requests |-> 0]

\* `hooks` is a history variable: for each observed request, the hook
\* invocations that have ended, in order.  No request is observed here.
Init == InitWith(Requests) /\ hooks = <<>> /\ hdr = NoHeaders

\* The frame after a statement: still running (parked, if the next statement
\* is behind an await), or the handler has ended and the host client moves on.
Settle(g) ==
    IF g.result = "running"
    THEN /\ IF g.pc \in AwaitPoints(g.h)
            THEN frame' = IdleFrame /\ suspended' = suspended \cup {g}
            ELSE frame' = g /\ UNCHANGED suspended
         /\ UNCHANGED <<last, phase, hooks>>
    ELSE /\ frame' = IdleFrame
         /\ UNCHANGED suspended
         /\ last' = g.result
         /\ hooks' = IF g.req \in DOMAIN hooks
                      THEN [hooks EXCEPT ![g.req] =
                              Append(@, [h |-> g.h, params |-> g.params,
                                         result |-> g.result])]
                      ELSE hooks
         /\ \E ph \in HostAfter(g.h, g.result) :
               phase' = [phase EXCEPT ![g.req] = ph]

Running(op) == frame.pc > 0 /\ Plan(frame.h)[frame.pc] = op

\* _ctx_factory, called by the host client once per request.
CtxFactory(r) ==
    /\ frame.pc = 0
    /\ phase[r] = "none"
    /\ \A q \in Requests : q < r => phase[q] # "none"
    /\ \E u \in Uuid4(Issued) :
          ctx' = [ctx EXCEPT ![r] =
                    [request_id |-> u, started |-> clock,
                     request_chunk_index |-> 0, response_chunk_index |-> 0]]
    /\ phase' = [phase EXCEPT ![r] = "created"]
    /\ UNCHANGED <<committed, pending, tables, frame, suspended, last, clock,
                   clockBack, fails, endRead, hooks, hdr>>

\* The event loop runs handler h for request r: a new invocation, awaited by
\* the host client with the context of r, or one that was parked at an await.
\* The host client awaits the hooks of one request one after the other.
Invoke(h, r, inputs, cap) ==
    /\ frame.pc = 0
    /\ \/ /\ CanInvoke(h, phase[r])
          /\ \A f \in suspended : f.req # r
          /\ Cardinality(committed.events \cup pending.events) < cap
          /\ \E p \in inputs :
                frame' = [IdleFrame EXCEPT !.h = h, !.req = r, !.pc = 1,
                                           !.result = "running", !.params = p,
                                           !.entry = ctx[r]]
          /\ UNCHANGED suspended
       \/ \E f \in suspended :
             /\ f.h = h /\ f.req = r
             /\ frame' = f
             /\ suspended' = suspended \ {f}
    /\ UNCHANGED <<committed, pending, tables, ctx, phase, last, clock, clockBack,
                   fails, endRead, hooks, hdr>>

Call(h, r) == Invoke(h, r, ParamsOf(h), MaxEvents)

\* The same, with params drawn from the wider sets and room for a lifecycle
\* of MaxTraceEvents events.
Hook(h, r) == Invoke(h, r, ParamsWide(h), MaxTraceEvents)

\* _on_request_end, line 170.
ComputeElapsed ==
    /\ Running("elapsed")
    /\ endRead' = [endRead EXCEPT ![frame.req] = clock]
    /\ Settle(Propagate([frame EXCEPT !.elapsed = Elapsed(clock, ctx[frame.req].started)],
                        "elapsed", TRUE))
    /\ UNCHANGED <<committed, pending, tables, ctx, clock, clockBack, fails, hdr>>

\* _insert_event: the INSERT into events and cur.lastrowid.
InsertEvent ==
    /\ Running("event")
    /\ \/ /\ "events" \in tables
          /\ LET ins == insert_event(committed, pending, clock,
                                     ctx[frame.req].request_id, EventType(frame.h)) IN
             /\ pending' = ins.pending
             /\ Settle(Propagate([frame EXCEPT !.event_id = ins.lastrowid],
                                 "event", TRUE))
          /\ UNCHANGED fails
       \/ /\ fails < MaxFail
          /\ fails' = fails + 1
          /\ pending' \in ErrorOutcomes(pending)
          /\ Settle(Propagate(frame, "event", FALSE))
    /\ UNCHANGED <<committed, tables, ctx, clock, clockBack, endRead, hdr>>

\* The handler's INSERT into its detail table.
InsertDetail ==
    /\ Running("detail")
    /\ \/ /\ DetailTable(frame.h) \in tables
          /\ pending' = InsertDetailRow(pending, DetailTable(frame.h),
                            DetailRow(frame.h, frame.event_id, ctx[frame.req],
                                      frame.params, frame.elapsed))
          /\ Settle(Propagate(frame, "detail", TRUE))
          /\ UNCHANGED fails
       \/ /\ fails < MaxFail
          /\ fails' = fails + 1
          /\ pending' \in ErrorOutcomes(pending)
          /\ Settle(Propagate(frame, "detail", FALSE))
    /\ UNCHANGED <<committed, tables, ctx, clock, clockBack, endRead, hdr>>

\* The chunk handlers' counter increment, between the detail INSERT and the
\* commit.
IncrementIndex ==
    /\ Running("incr")
    /\ ctx' = [ctx EXCEPT ![frame.req] = Increment(frame.h, @)]
    /\ Settle(Propagate(frame, "incr", TRUE))
    /\ UNCHANGED <<committed, pending, tables, clock, clockBack, fails, endRead, hdr>>

\* self._conn.commit()
Commit ==
    /\ Running("commit")
    /\ \/ /\ committed' = CommitTx(committed, pending)
          /\ pending' = EmptyDb
          /\ Settle(Propagate(frame, "commit", TRUE))
          /\ UNCHANGED fails
       \/ /\ fails < MaxFail
          /\ fails' = fails + 1
          /\ pending' \in ErrorOutcomes(pending)
          /\ Settle(Propagate(frame, "commit", FALSE))
          /\ UNCHANGED committed
    /\ UNCHANGED <<tables, ctx, clock, clockBack, endRead, hdr>>

\* The application calls init_sqlite(conn) on the connection the recorder
\* uses; `mark` is what `last` remembers of a call that raised no error.
Initialise(mark) ==
    /\ frame.pc = 0
    /\ \E db \in {init_sqlite(Db)} :
          /\ tables' = db.tables
          /\ committed' = db.committed
          /\ pending' = db.pending
          /\ last' = IF db.error THEN "raised" ELSE mark
    /\ UNCHANGED <<ctx, phase, frame, suspended, clock, clockBack, fails,
                   endRead, hooks, hdr>>

\* `last` keeps how the last handler invocation ended.
InitSqlite == Initialise(last)

\* `last` records the call.
InitSqlite_Observed == Initialise("initialised")

\* The host client cancels or times out a request: it stops firing hooks.
Cancel(r) ==
    /\ frame.pc = 0
    /\ phase[r] \in {"started", "failing"}
    /\ phase' = [phase EXCEPT ![r] = "cancelled"]
    /\ UNCHANGED <<committed, pending, tables, ctx, frame, suspended, last, clock,
                   clockBack, fails, endRead, hooks, hdr>>

\* The wall clock advances, or is set back (NTP, an operator); the model sets
\* it back at most once.
ClockMove ==
    /\ \E t \in 0..MaxClock :
          /\ t # clock
          /\ t < clock => ~clockBack
          /\ clock' = t
          /\ clockBack' = (clockBack \/ t < clock)
    /\ UNCHANGED <<committed, pending, tables, ctx, phase, frame, suspended, last,
                   fails, endRead, hooks, hdr>>

Next ==
    \/ \E r \in Requests : CtxFactory(r)
    \/ \E h \in Handlers, r \in Requests : Call(h, r)
    \/ ComputeElapsed
    \/ InsertEvent
    \/ InsertDetail
    \/ IncrementIndex
    \/ Commit
    \/ InitSqlite
    \/ \E r \in Requests : Cancel(r)

\* The recorder on a storage that can fail, under concurrent requests.  The
\* readings of time.time() flow only into ts, started and elapsed and no
\* statement branches on them, so here the clock stands still.
Spec == Init /\ [][Next]_vars

\* One request, on a storage that can fail, with a wall clock that advances
\* and can be set back.
InitSolo == InitWith({1}) /\ hooks = <<>> /\ hdr = NoHeaders

NextClock == Next \/ ClockMove

SpecClock == InitSolo /\ [][NextClock]_vars

\* One request, observed: its hook invocations are recorded in `hooks`, with
\* params from the wider sets.  init_sqlite is called once, before the
\* recorder is constructed.
InitTrace ==
    InitWith({1}) /\ hooks = [r \in {1} |-> <<>>] /\ hdr = NoHeaders

NextTrace ==
    \/ \E r \in Requests : CtxFactory(r)
    \/ \E h \in Handlers, r \in Requests : Hook(h, r)
    \/ ComputeElapsed
    \/ InsertEvent
    \/ InsertDetail
    \/ IncrementIndex
    \/ Commit
    \/ \E r \in Requests : Cancel(r)

SpecTrace == InitTrace /\ [][NextTrace]_vars

\* A connection to a database that holds any of the tables (none: a new
\* file; some: a file left by an interrupted or older initialization), on
\* which the application calls init_sqlite at any time, any number of times.
\* An INSERT into a missing table raises sqlite3.OperationalError.
InitAnySchema ==
    /\ committed = EmptyDb
    /\ pending = EmptyDb
    /\ tables \in SUBSET SchemaTables
    /\ ctx = [r \in Requests |-> NoCtx]
    /\ phase = [r \in Requests |-> IF r = 1 THEN "none" ELSE "unissued"]
    /\ frame = IdleFrame
    /\ suspended = {}
    /\ last = "none"
    /\ clock = 0
    /\ clockBack = FALSE
    /\ fails = 0
    /\ endRead = [r \in Requests |-> 0]
    /\ hooks = <<>>
    /\ hdr = NoHeaders

NextSchema ==
    \/ \E r \in Requests : CtxFactory(r)
    \/ \E h \in Handlers, r \in Requests : Call(h, r)
    \/ ComputeElapsed
    \/ InsertEvent
    \/ InsertDetail
    \/ IncrementIndex
    \/ Commit
    \/ InitSqlite_Observed
    \/ \E r \in Requests : Cancel(r)

SpecSchema == InitAnySchema /\ [][NextSchema]_vars

\* A header list (the items of a CIMultiDict: order kept, names may repeat)
\* is put together, serialized with _serialize_headers and decoded again.
HeaderChars(headers) ==
    Len(Flatten([i \in 1..Len(headers) |-> headers[i][1] \o headers[i][2]]))

InitHeaders ==
    /\ InitWith({})
    /\ hooks = <<>>
    /\ hdr = [NoHeaders EXCEPT !.pc = "input"]

AddPair ==
    /\ hdr.pc = "input"
    /\ Len(hdr.headers) < MaxPairs
    /\ hdr' = [hdr EXCEPT !.headers = Append(@, <<<<>>, <<>>>>)]
    /\ UNCHANGED <<committed, pending, tables, ctx, phase, frame, suspended, last,
                   clock, clockBack, fails, endRead, hooks>>

AddChar ==
    /\ hdr.pc = "input"
    /\ HeaderChars(hdr.headers) < MaxChars
    /\ \E i \in 1..Len(hdr.headers), k \in 1..2, c \in Characters :
          hdr' = [hdr EXCEPT !.headers[i][k] = Append(@, c)]
    /\ UNCHANGED <<committed, pending, tables, ctx, phase, frame, suspended, last,
                   clock, clockBack, fails, endRead, hooks>>

SerializeHeaders ==
    /\ hdr.pc = "input"
    /\ hdr' = [hdr EXCEPT !.pc = "serialized",
                          !.text = serialize_headers(hdr.headers)]
    /\ UNCHANGED <<committed, pending, tables, ctx, phase, frame, suspended, last,
                   clock, clockBack, fails, endRead, hooks>>

DecodeHeaders ==
    /\ hdr.pc = "serialized"
    /\ hdr' = [hdr EXCEPT !.pc = "decoded", !.decoded = json_loads(hdr.text)]
    /\ UNCHANGED <<committed, pending, tables, ctx, phase, frame, suspended, last,
                   clock, clockBack, fails, endRead, hooks>>

NextHeaders == AddPair \/ AddChar \/ SerializeHeaders \/ DecodeHeaders

SpecHeaders == InitHeaders /\ [][NextHeaders]_vars

(***************************************************************************)
(* Properties                                                              *)
(***************************************************************************)
DetailTables == SchemaTables \ {"events"}
ChunkTables == {"request_chunk", "response_chunk"}
TerminalTypes == {"request_end", "request_exception"}

EventsOf(db, id) == {e \in db.events : e.id = id}
RequestIdsOf(db, id) == {e.request_id : e \in EventsOf(db, id)}
DetailsOf(db, id) ==
    UNION {{<<t, d>> : d \in {x \in db[t] : x.event_id = id}} : t \in DetailTables}

\* A step in which the handler in progress returns normally / in which a
\* storage write raises.
Returns == frame.pc > 0 /\ frame'.pc = 0 /\ last' = "returned"
WriteFails == fails' > fails

\* C1: the chunk_index values of the committed request_chunk rows (and of
\* the response_chunk rows) of one correlation id, in increasing event id, are
\* 0, 1, ..., n-1: each row's index is the number of rows before it.
C1_ChunkIndexSequence ==
    \A t \in ChunkTables : \A d \in committed[t] :
        \A rid \in RequestIdsOf(committed, d.event_id) :
            d.chunk_index =
                Cardinality({x \in committed[t] :
                                /\ x.event_id < d.event_id
                                /\ rid \in RequestIdsOf(committed, x.event_id)})

\* C2: in the durable state a handler leaves when it returns, every events
\* row has exactly one detail row, in the table its event_type names.
C2_EachEventHasItsDetail ==
    (frame.pc = 0 /\ last = "returned") =>
        \A e \in committed.events :
            /\ Cardinality(DetailsOf(committed, e.id)) = 1
            /\ \A td \in DetailsOf(committed, e.id) : td[1] = e.event_type

C3_Referenced ==
    \A t \in DetailTables : \A d \in committed[t] :
        /\ Cardinality(EventsOf(committed, d.event_id)) = 1
        /\ \A e \in EventsOf(committed, d.event_id) : e.event_type = t
        /\ Cardinality(DetailsOf(committed, d.event_id)) = 1

C3_SameCommit ==
    \A t \in DetailTables : \A d \in committed'[t] \ committed[t] :
        \E e \in committed'.events \ committed.events : e.id = d.event_id

\* C3: every committed detail row references exactly one committed events
\* row, of the event_type of its table, no other detail row references that
\* events row, and a detail row becomes durable in the step in which its
\* events row becomes durable.
C3_DetailReferencesItsEvent == []C3_Referenced /\ [][C3_SameCommit]_vars

\* Detail rows of two kinds are durable although a storage write has failed.
C3_Witness ==
    /\ fails > 0
    /\ committed.request_start # {}
    /\ \E t \in DetailTables \ {"request_start"} : committed[t] # {}

C4_DistinctIds ==
    \A r1 \in Live : \A r2 \in Live :
        r1 # r2 => ctx[r1].request_id # ctx[r2].request_id

C4_OwnRows ==
    /\ \A e \in pending'.events \ pending.events :
          frame.pc > 0 /\ e.request_id = ctx[frame.req].request_id
    /\ \A t \in DetailTables : \A d \in pending'[t] \ pending[t] :
          /\ frame.pc > 0
          /\ RequestIdsOf(Visible(committed', pending'), d.event_id)
                = {ctx[frame.req].request_id}

\* C4: live contexts carry different correlation ids, every events row is
\* inserted with the correlation id of the context its handler was called
\* with, and the events row a new detail row references carries that id too.
C4_NoCrossReference == []C4_DistinctIds /\ [][C4_OwnRows]_vars

\* Two requests are in flight and both have durable rows, interleaved.
C4_Witness ==
    /\ phase[1] = "started" /\ phase[2] = "started"
    /\ \E e1 \in committed.events : \E e2 \in committed.events : \E e3 \in committed.events :
          /\ e1.id < e2.id /\ e2.id < e3.id
          /\ e1.request_id = ctx[1].request_id
          /\ e2.request_id = ctx[2].request_id
          /\ e3.request_id = ctx[1].request_id

\* The rows the handler in progress has inserted are durable after the step.
OwnRowsDurable ==
    /\ \E e \in committed'.events :
          /\ e.id = frame.event_id
          /\ e.request_id = ctx[frame.req].request_id
          /\ e.event_type = EventType(frame.h)
    /\ \E d \in committed'[DetailTable(frame.h)] : d.event_id = frame.event_id

StartEvents(db, rid) ==
    {s \in db.events : s.request_id = rid /\ s.event_type = "request_start"}

C6_DurableOnReturn ==
    [][Returns => (pending' = EmptyDb /\ OwnRowsDurable)]_vars

\* A handler has returned after an earlier one failed and left an events row
\* in the open transaction; nothing is pending any more.
C6_Witness ==
    /\ frame.pc = 0 /\ last = "returned" /\ fails > 0
    /\ pending = EmptyDb
    /\ \E e \in committed.events : DetailsOf(committed, e.id) = {}

C7_Steps ==
    frame.pc > 0 =>
        /\ Len(frame.steps) = frame.pc - 1
        /\ \A i \in 1..Len(frame.steps) :
              frame.steps[i].ok /\ frame.steps[i].op = Plan(frame.h)[i]

C7_Raise ==
    WriteFails =>
        /\ frame.pc > 0 /\ frame'.pc = 0 /\ last' = "raised"
        /\ committed' = committed
        /\ ctx' = ctx
        /\ \A t \in SchemaTables : pending'[t] \subseteq pending[t]

C7_Return ==
    Returns => (~WriteFails /\ frame.pc = Len(Plan(frame.h)))

\* C7: the statements a handler has executed are its first statements in
\* order, each once, and all succeeded; a failing write ends the handler with
\* the error, writing nothing and touching no context; a handler returns
\* normally only from its last statement, when that succeeds.
C7_FailurePassthrough == []C7_Steps /\ [][C7_Raise /\ C7_Return]_vars

\* A handler has raised after its events INSERT: the events row is in the
\* open transaction, no detail row was inserted after it.
C7_Witness ==
    /\ frame.pc = 0 /\ last = "raised" /\ fails > 0
    /\ \E e \in pending.events : DetailsOf(pending, e.id) = {}

\* C8: once a storage write has failed, a handler that returns normally has
\* made durable its own events row and detail row and nothing else.
C8_IndependentRecording ==
    [][(Returns /\ fails > 0) =>
          /\ OwnRowsDurable
          /\ \A e \in committed'.events \ committed.events : e.id = frame.event_id
          /\ \A t \in DetailTables : \A d \in committed'[t] \ committed[t] :
                t = DetailTable(frame.h) /\ d.event_id = frame.event_id]_vars

C9_UniqueIds ==
    \A e1 \in committed.events \cup pending.events :
        \A e2 \in committed.events \cup pending.events :
            e1.id = e2.id => e1 = e2

C9_Grows ==
    /\ \A t \in SchemaTables : committed[t] \subseteq committed'[t]
    /\ \A e \in pending'.events \ pending.events :
          \A x \in committed.events \cup pending.events : x.id < e.id

\* C9: no step removes or changes a durable row; event ids are unique, and a
\* new events row gets an id above all ids in the table.
C9_AppendOnly == []C9_UniqueIds /\ [][C9_Grows]_vars

\* A request was cancelled after its start event: the start event is durable,
\* a later event of another request is durable, and the cancelled request has
\* no terminal event.
C9_Witness ==
    \E r \in Live :
        /\ phase[r] = "cancelled"
        /\ \E s \in StartEvents(committed, ctx[r].request_id) :
              \E x \in committed.events : x.id > s.id /\ x.request_id # s.request_id
        /\ \A e \in committed.events \cup pending.events :
              e.request_id = ctx[r].request_id => e.event_type \notin TerminalTypes

EndRows(db) ==
    {<<d, r>> \in db.request_end \X Live :
        ctx[r].request_id \in RequestIdsOf(db, d.event_id)}

\* C10: elapsed of a request_end row is the end handler's reading of the
\* wall clock minus the start time in the request's context, and is >= 0.
C10_ElapsedNonNegative ==
    \A dr \in EndRows(Visible(committed, pending)) :
        /\ dr[1].elapsed = endRead[dr[2]] - ctx[dr[2]].started
        /\ dr[1].elapsed >= 0

\* C10 as amended: elapsed is the end handler's reading minus the start time
\* in the context, and is >= 0 unless the wall clock has been set back.
C10_Elapsed_Amended ==
    \A dr \in EndRows(Visible(committed, pending)) :
        /\ dr[1].elapsed = endRead[dr[2]] - ctx[dr[2]].started
        /\ ~clockBack => dr[1].elapsed >= 0

\* A request_end row is durable whose request took time on a clock that was
\* never set back.
C10_Witness ==
    ~clockBack /\ \E dr \in EndRows(committed) : dr[1].elapsed > 0

ChunkHandlers == {"_on_request_chunk_sent", "_on_response_chunk_received"}

\* C15: when a chunk handler ends with a storage error, the context it was
\* called with has the counter values it had when the handler was invoked.
C15_CounterAfterCommit ==
    [][(frame.pc > 0 /\ frame.h \in ChunkHandlers /\ WriteFails) =>
          /\ ctx'[frame.req].request_chunk_index = frame.entry.request_chunk_index
          /\ ctx'[frame.req].response_chunk_index = frame.entry.response_chunk_index]_vars

\* What the handler in progress may have made of the context it was called
\* with: nothing, or (chunk handlers) its own counter one higher.
C16_Allowed ==
    {frame.entry} \cup
    (IF frame.h = "_on_request_chunk_sent"
        THEN {[frame.entry EXCEPT !.request_chunk_index = @ + 1]}
     ELSE IF frame.h = "_on_response_chunk_received"
        THEN {[frame.entry EXCEPT !.response_chunk_index = @ + 1]}
     ELSE {})

C16_Step ==
    /\ \A r \in Live :
          /\ ctx'[r].request_id = ctx[r].request_id
          /\ ctx'[r].started = ctx[r].started
    /\ frame.pc = 0 => \A r \in Live : ctx'[r] = ctx[r]
    /\ frame.pc > 0 =>
          /\ \A r \in Requests \ {frame.req} : ctx'[r] = ctx[r]
          /\ ctx'[frame.req] \in C16_Allowed
          /\ (Returns /\ frame.h \in ChunkHandlers) => ctx'[frame.req] # frame.entry

\* C16: a handler leaves the context of every other request unchanged; the
\* sent-chunk handler changes only request_chunk_index, by +1, the
\* received-chunk handler only response_chunk_index, by +1; the other handlers
\* change nothing; correlation id and start time of a context never change.
C16_ContextIsolation == [][C16_Step]_vars

\* Two requests are in flight; one has sent a chunk, the other's counters and
\* the first one's received-chunk counter are still 0.
C16_Witness ==
    /\ frame.pc = 0
    /\ \E r1 \in Live : \E r2 \in Live \ {r1} :
          /\ phase[r1] = "started" /\ phase[r2] = "started"
          /\ ctx[r1].request_chunk_index = 1
          /\ ctx[r1].response_chunk_index = 0
          /\ ctx[r2].request_chunk_index = 0
          /\ ctx[r2].response_chunk_index = 0

\* The invocations that exist: the one running and the parked ones.
Invocations == {f \in suspended \cup {frame} : f.pc > 0}

HasInserted(f) == \E i \in 1..Len(f.steps) : f.steps[i].op = "event"

\* No handler runs while another invocation is between its events INSERT and
\* the end of its commit.
C17_NoPreemption ==
    frame.pc > 0 => \A f \in suspended : ~HasInserted(f)

\* A detail row references the events row inserted last, and a commit makes
\* durable no events row without detail row that belongs to an invocation
\* still in progress.
C17_Step ==
    /\ \A t \in DetailTables : \A d \in pending'[t] \ pending[t] :
          d.event_id = Max({e.id : e \in committed.events \cup pending.events})
    /\ \A e \in committed'.events \ committed.events :
          DetailsOf(committed', e.id) = {} =>
              \A f \in Invocations : f.event_id # e.id

\* C17: between a handler's events INSERT and its commit no step of another
\* handler executes; the events row and the detail row of an invocation are
\* inserted back to back, and a commit never makes durable the events row
\* without detail row of a handler that is still in progress.
C17_HandlerAtomicity == []C17_NoPreemption /\ [][C17_Step]_vars

\* A handler is past its events INSERT and before the end of its commit while
\* another request is in flight, with hooks the host client could fire.
C17_Witness ==
    /\ frame.pc > 1 /\ HasInserted(frame)
    /\ \E e \in pending.events : e.id = frame.event_id
    /\ \E r \in Live \ {frame.req} : phase[r] = "started"

\* C18: for every correlation id the committed events table holds at most one
\* terminal event (request_end or request_exception), never both kinds.
C18_OneTerminalEvent ==
    \A r \in Live :
        Cardinality({e \in committed.events :
                        /\ e.request_id = ctx[r].request_id
                        /\ e.event_type \in TerminalTypes}) <= 1

DetailRowsOf(db, t, rid) ==
    {d \in db[t] : rid \in RequestIdsOf(db, d.event_id)}

\* C19: when no handler is executing, each live context's counters equal the
\* numbers of committed request_chunk and response_chunk rows of its
\* correlation id.
C19_CountersMatchStorage ==
    (frame.pc = 0 /\ suspended = {}) =>
        \A r \in Live :
            /\ ctx[r].request_chunk_index =
                  Cardinality(DetailRowsOf(committed, "request_chunk", ctx[r].request_id))
            /\ ctx[r].response_chunk_index =
                  Cardinality(DetailRowsOf(committed, "response_chunk", ctx[r].request_id))

\* The events rows of correlation id rid, and the i-th of them by id.
EventsFor(db, rid) == {e \in db.events : e.request_id = rid}

Nth(db, rid, i) ==
    {e \in EventsFor(db, rid) :
        Cardinality({x \in EventsFor(db, rid) : x.id < e.id}) = i - 1}

\* The detail row hook invocation i of history hs has to have left for events
\* row e: chunk_index is the number of earlier invocations of the same hook.
Expected(hs, i, e) ==
    LET p == hs[i].params
        h == hs[i].h
        before == Cardinality({j \in 1..(i - 1) : hs[j].h = h})
    IN  CASE h = "_on_request_start" ->
                {[event_id |-> e.id, method |-> p.method, url |-> p.url]}
          [] h = "_on_request_end" ->
                {d \in committed.request_end :
                    d.event_id = e.id /\ d.status = p.status}
          [] h = "_on_request_exception" ->
                {[event_id |-> e.id, exception |-> p.exception]}
          [] h \in ChunkHandlers ->
                {[event_id |-> e.id, chunk_index |-> before,
                  size |-> Len(p.chunk), payload |-> p.chunk]}

AllReturned(hs) == \A i \in 1..Len(hs) : hs[i].result = "returned"

\* start, any number of sent and received chunks, end.
Completed(hs) ==
    /\ Len(hs) >= 2
    /\ hs[1].h = "_on_request_start"
    /\ hs[Len(hs)].h = "_on_request_end"
    /\ \A i \in 2..(Len(hs) - 1) : hs[i].h \in ChunkHandlers

\* C11: after a lifecycle start, m sent chunks, k received chunks, end whose
\* handlers all returned, storage holds for the correlation id exactly
\* m+k+2 events rows, the i-th of the type of the i-th hook, each with
\* exactly one detail row, in the table of its type, holding the hook's
\* params: method and url, chunk_index 0.. in order with size the length of
\* the chunk, status; and no request_exception row.
C11_SuccessfulLifecycle ==
    \A r \in DOMAIN hooks :
        (frame.pc = 0 /\ Completed(hooks[r]) /\ AllReturned(hooks[r])) =>
            LET hs == hooks[r]
                rid == ctx[r].request_id
            IN  /\ Cardinality(EventsFor(committed, rid)) = Len(hs)
                /\ \A i \in 1..Len(hs) :
                      /\ Cardinality(Nth(committed, rid, i)) = 1
                      /\ \A e \in Nth(committed, rid, i) :
                            /\ e.event_type = EventType(hs[i].h)
                            /\ Cardinality(Expected(hs, i, e)) = 1
                            /\ DetailsOf(committed, e.id) =
                                  {<<e.event_type, d>> : d \in Expected(hs, i, e)}
                /\ DetailRowsOf(committed, "request_exception", rid) = {}

\* The spec's case, on the wider inputs: start, two received chunks of
\* different sizes, end; all rows are durable.
C11_Witness ==
    /\ frame.pc = 0
    /\ 1 \in DOMAIN hooks
    /\ Len(hooks[1]) = 4
    /\ Completed(hooks[1]) /\ AllReturned(hooks[1])
    /\ hooks[1][2].h = "_on_response_chunk_received"
    /\ hooks[1][3].h = "_on_response_chunk_received"
    /\ Len(hooks[1][2].params.chunk) > Len(hooks[1][3].params.chunk)
    /\ Cardinality(committed.response_chunk) = 2

\* start first, exception last, no end hook in between.
Failed(hs) ==
    /\ Len(hs) >= 2
    /\ hs[1].h = "_on_request_start"
    /\ hs[Len(hs)].h = "_on_request_exception"
    /\ \A i \in 2..(Len(hs) - 1) : hs[i].h \in ChunkHandlers

C12_Rows(r) ==
    LET rid == ctx[r].request_id IN
    /\ Cardinality(DetailRowsOf(committed, "request_start", rid)) = 1
    /\ Cardinality(DetailRowsOf(committed, "request_exception", rid)) = 1
    /\ DetailRowsOf(committed, "request_end", rid) = {}
    /\ \A e \in EventsFor(committed, rid) : e.event_type # "request_end"

C12_Returned ==
    \A r \in DOMAIN hooks :
        (/\ frame.pc = 0
         /\ Failed(hooks[r])
         /\ hooks[r][1].result = "returned"
         /\ hooks[r][Len(hooks[r])].result = "returned") => C12_Rows(r)

C12_NoEndWrite ==
    (frame.pc > 0 /\ frame.h = "_on_request_exception") =>
        /\ pending'.request_end \subseteq pending.request_end
        /\ \A e \in pending'.events \ pending.events : e.event_type # "request_end"

C13_Call ==
    frame.pc = 0 =>
        LET once == init_sqlite(Db) IN
        /\ ~once.error
        /\ once.tables = SchemaTables
        /\ Visible(once.committed, once.pending) = Visible(committed, pending)
        /\ \A t \in SchemaTables : committed[t] \subseteq once.committed[t]
        /\ init_sqlite(once) = once

\* Right after a call, a second call changes nothing.
C13_Again ==
    (frame.pc = 0 /\ last = "initialised") =>
        /\ tables = SchemaTables
        /\ init_sqlite(Db) = Db

C13_Step ==
    (tables' # tables \/ (last' # last /\ last' = "initialised")) =>
        /\ frame.pc = 0 /\ last' = "initialised"
        /\ tables' = SchemaTables
        /\ Visible(committed', pending') = Visible(committed, pending)
        /\ \A t \in SchemaTables : committed[t] \subseteq committed'[t]

\* C13: init_sqlite, called at any time on any database, raises no error,
\* leaves exactly the six tables and every existing row as it was; a second
\* call leaves the state the first call left.
C13_InitIdempotent == []C13_Call /\ []C13_Again /\ [][C13_Step]_vars

\* init_sqlite has just been called on a database that holds recorded rows,
\* after a handler had failed.
C13_Witness ==
    /\ frame.pc = 0 /\ last = "initialised"
    /\ fails > 0
    /\ committed.request_start # {}

\* C14: decoding the text _serialize_headers has produced for a list of
\* (name, value) pairs yields the same pairs, in the same order, with the
\* same multiplicity.
C14_HeadersRoundTrip ==
    hdr.pc = "decoded" => hdr.decoded = hdr.headers

====
